---- MODULE Spec2Model ----
(***************************************************************************)
(* Model of transformers.ipynb: the free function                          *)
(* scaled_dot_product_attention and the class MultiHeadedAttention, run    *)
(* from notebook cells that share one kernel namespace and one random      *)
(* generator.                                                              *)
(*                                                                         *)
(* Numbers.  Tensor elements are exact real numbers.  Integers stand for   *)
(* themselves.  A value produced by softmax is a quotient n/d of           *)
(* exponential polynomials: a polynomial is a finite function from integer *)
(* exponents e to non-zero integer coefficients c and denotes              *)
(* SUM c * exp(e / sqrt(rsqrt)), rsqrt being carried by the tensor.        *)
(* exp(1/sqrt(k)) is transcendental, so two quotients are equal as reals   *)
(* iff they are equal after cross-multiplication (FEq).                    *)
(*                                                                         *)
(* Tensors.  A tensor is a record: shape, row-major data (as torch stores  *)
(* a contiguous tensor), kind ("int" or "frac"), rsqrt, and known.  A      *)
(* tensor with more than MaxTracked elements keeps its shape only          *)
(* (known = FALSE).  A raised exception is a record with err # "ok".       *)
(***************************************************************************)
EXTENDS Integers, Sequences, FiniteSets, TLC

VARIABLES ns, rng, att, mha, fwd, op

vars == <<ns, rng, att, mha, fwd, op>>

\* ---------------------------------------------------------------- bounds
MaxTracked == 16
RngPeriod == 2
MaxSeqLen == 2
MaxHeads == 2
MaxHeadDim == 2

\* ------------------------------------------------- exponential polynomials
PZero == [e \in {} |-> 0]

PConst(c) == IF c = 0 THEN PZero ELSE [e \in {0} |-> c]

PExp(s) == [e \in {s} |-> 1]

PCoef(p, e) == IF e \in DOMAIN p THEN p[e] ELSE 0

PAdd(p, q) ==
    LET c(e) == PCoef(p, e) + PCoef(q, e)
    IN  [e \in {x \in (DOMAIN p) \cup (DOMAIN q) : c(x) # 0} |-> c(e)]

PNeg(p) == [e \in DOMAIN p |-> 0 - p[e]]

RECURSIVE SumFun(_)
SumFun(f) ==
    IF DOMAIN f = {} THEN 0
    ELSE LET e == CHOOSE x \in DOMAIN f : TRUE
         IN  f[e] + SumFun([d \in (DOMAIN f) \ {e} |-> f[d]])

PMul(p, q) ==
    LET c(e) == SumFun([a \in {x \in DOMAIN p : (e - x) \in DOMAIN q}
                          |-> p[a] * q[e - a]])
    IN  [e \in {x \in {a + b : a \in DOMAIN p, b \in DOMAIN q} : c(x) # 0}
           |-> c(e)]

PNonNeg(p) == \A e \in DOMAIN p : p[e] > 0

\* ------------------------------------------------------------- quotients
FRat(a, b) == [n |-> PConst(a), d |-> PConst(b)]

FInt(a) == FRat(a, 1)

FEq(a, b) == PMul(a.n, b.d) = PMul(b.n, a.d)

FAdd(a, b) ==
    IF a.n = PZero THEN b
    ELSE IF b.n = PZero THEN a
    ELSE IF a.d = b.d THEN [n |-> PAdd(a.n, b.n), d |-> a.d]
    ELSE [n |-> PAdd(PMul(a.n, b.d), PMul(b.n, a.d)), d |-> PMul(a.d, b.d)]

FMul(a, b) ==
    IF a.n = PZero \/ b.n = PZero THEN FInt(0)
    ELSE [n |-> PMul(a.n, b.n), d |-> PMul(a.d, b.d)]

RECURSIVE FSum(_)
FSum(s) == IF Len(s) = 0 THEN FInt(0) ELSE FAdd(Head(s), FSum(Tail(s)))

RECURSIVE ISum(_)
ISum(s) == IF Len(s) = 0 THEN 0 ELSE Head(s) + ISum(Tail(s))

\* 0 <= a <= 1 : n, d and d - n have positive coefficients only, d # 0
FInUnit(a) ==
    /\ a.d # PZero
    /\ PNonNeg(a.n)
    /\ PNonNeg(a.d)
    /\ PNonNeg(PAdd(a.d, PNeg(a.n)))

\* ---------------------------------------------------------------- tensors
RECURSIVE Numel(_)
Numel(shape) == IF Len(shape) = 0 THEN 1 ELSE Head(shape) * Numel(Tail(shape))

Err(e) == [err |-> e, shape |-> <<>>, kind |-> "int", rsqrt |-> 1,
           known |-> FALSE, data |-> <<>>]

None == Err("None")

IsTensor(t) == t.err = "ok"

Tensor(shape, kind, rsqrt, known, data) ==
    [err |-> "ok", shape |-> shape, kind |-> kind, rsqrt |-> rsqrt,
     known |-> known, data |-> IF known THEN data ELSE <<>>]

Tracked(shape) == Numel(shape) <= MaxTracked

IntTensor(shape, data) == Tensor(shape, "int", 1, Tracked(shape), data)

ElemF(t, i) == IF t.kind = "int" THEN FInt(t.data[i]) ELSE t.data[i]

\* equality of the values two tensors denote
TensorEq(a, b) ==
    /\ a.err = b.err
    /\ a.shape = b.shape
    /\ a.known = b.known
    /\ a.rsqrt = b.rsqrt
    /\ a.known => \A i \in 1..Numel(a.shape) : FEq(ElemF(a, i), ElemF(b, i))

\* view a rank-2 or rank-3 shape as (batch, rows, cols)
Batch(shape) == IF Len(shape) = 3 THEN shape[1] ELSE 1
Rows(shape) == shape[Len(shape) - 1]
Cols(shape) == shape[Len(shape)]

\* element (b, i, j), 0-based, of a rank-2 or rank-3 tensor; a batch of
\* size 1 is broadcast
At(t, b, i, j) ==
    LET bb == IF Batch(t.shape) = 1 THEN 0 ELSE b
    IN  bb * Rows(t.shape) * Cols(t.shape) + i * Cols(t.shape) + j + 1

\* torch.matmul on operands of rank 2 or 3
Matmul(a, b) ==
    IF ~IsTensor(a) THEN a
    ELSE IF ~IsTensor(b) THEN b
    ELSE IF Len(a.shape) \notin {2, 3} \/ Len(b.shape) \notin {2, 3}
         THEN Err("Unmodelled")
    ELSE IF Cols(a.shape) # Rows(b.shape) THEN Err("RuntimeError")
    ELSE IF /\ Batch(a.shape) # Batch(b.shape)
            /\ Batch(a.shape) # 1
            /\ Batch(b.shape) # 1
         THEN Err("RuntimeError")
    ELSE
    LET B == IF Batch(a.shape) = 1 THEN Batch(b.shape) ELSE Batch(a.shape)
        n == Rows(a.shape)
        m == Cols(a.shape)
        p == Cols(b.shape)
        shape == IF Len(a.shape) = 3 \/ Len(b.shape) = 3
                 THEN <<B, n, p>> ELSE <<n, p>>
        kind == IF a.kind = "int" /\ b.kind = "int" THEN "int" ELSE "frac"
        rsqrt == IF kind = "int" THEN a.rsqrt * b.rsqrt
                 ELSE IF a.kind = "frac" THEN a.rsqrt ELSE b.rsqrt
        known == a.known /\ b.known
        bi(x) == (x - 1) \div (n * p)
        ri(x) == ((x - 1) % (n * p)) \div p
        ci(x) == (x - 1) % p
        cell(x) ==
            IF kind = "int"
            THEN ISum([k \in 1..m |->
                     a.data[At(a, bi(x), ri(x), k - 1)]
                   * b.data[At(b, bi(x), k - 1, ci(x))]])
            ELSE FSum([k \in 1..m |->
                     FMul(ElemF(a, At(a, bi(x), ri(x), k - 1)),
                          ElemF(b, At(b, bi(x), k - 1, ci(x))))])
    IN  Tensor(shape, kind, rsqrt, known,
               IF known THEN [x \in 1..(B * n * p) |-> cell(x)] ELSE <<>>)

\* torch.transpose(t, 1, 2) on a rank-3 tensor
Transpose12(t) ==
    IF ~IsTensor(t) THEN t
    ELSE IF Len(t.shape) < 3 THEN Err("IndexError")
    ELSE IF Len(t.shape) > 3 THEN Err("Unmodelled")
    ELSE
    LET B == t.shape[1]
        n == t.shape[2]
        m == t.shape[3]
        src(x) == At(t, (x - 1) \div (n * m), (x - 1) % n,
                     ((x - 1) % (n * m)) \div n)
    IN  Tensor(<<B, m, n>>, t.kind, t.rsqrt, t.known,
               IF t.known THEN [x \in 1..(B * n * m) |-> t.data[src(x)]]
               ELSE <<>>)

\* t * (1 / math.sqrt(d)) on an integer tensor
MulRsqrt(t, d) ==
    IF ~IsTensor(t) THEN t
    ELSE IF t.kind # "int" THEN Err("Unmodelled")
    ELSE [t EXCEPT !.rsqrt = t.rsqrt * d]

\* variant: softmax over the last axis (dim=-1)
SoftmaxLast(t) ==
    IF ~IsTensor(t) THEN t
    ELSE IF t.kind # "int" \/ Len(t.shape) # 3 THEN Err("Unmodelled")
    ELSE
    LET m == t.shape[3]
        den(x) == FSum([j \in 1..m |->
                     [n |-> PExp(t.data[((x - 1) \div m) * m + j]),
                      d |-> PConst(1)]]).n
    IN  Tensor(t.shape, "frac", t.rsqrt, t.known,
               IF t.known
               THEN [x \in 1..Numel(t.shape) |->
                        [n |-> PExp(t.data[x]), d |-> den(x)]]
               ELSE <<>>)

\* F.softmax(t, dim=0) on a rank-3 tensor: normalises over the first axis
Softmax0(t) ==
    IF ~IsTensor(t) THEN t
    ELSE IF t.kind # "int" \/ Len(t.shape) # 3 THEN Err("Unmodelled")
    ELSE
    LET B == t.shape[1]
        sz == t.shape[2] * t.shape[3]
        den(x) == FSum([b \in 1..B |->
                     [n |-> PExp(t.data[(b - 1) * sz + ((x - 1) % sz) + 1]),
                      d |-> PConst(1)]]).n
    IN  Tensor(t.shape, "frac", t.rsqrt, t.known,
               IF t.known
               THEN [x \in 1..(B * sz) |->
                        [n |-> PExp(t.data[x]), d |-> den(x)]]
               ELSE <<>>)

\* t.reshape(shape): the same elements in the same row-major order
Reshape(t, shape) ==
    IF ~IsTensor(t) THEN t
    ELSE IF Numel(shape) # Numel(t.shape) THEN Err("RuntimeError")
    ELSE [t EXCEPT !.shape = shape]

\* a += b for a of rank 2 and b of rank 1, b broadcast over the rows of a;
\* the result is the new content of a
IAdd(a, b) ==
    IF ~IsTensor(a) THEN a
    ELSE IF ~IsTensor(b) THEN Err("TypeError")
    ELSE IF Len(a.shape) # 2 \/ Len(b.shape) # 1 THEN Err("Unmodelled")
    ELSE IF b.shape[1] # a.shape[2] /\ b.shape[1] # 1 THEN Err("RuntimeError")
    ELSE
    LET m == a.shape[2]
        known == a.known /\ b.known
        bj(x) == IF b.shape[1] = 1 THEN 1 ELSE ((x - 1) % m) + 1
    IN  Tensor(a.shape, "frac", a.rsqrt, known,
               IF known
               THEN [x \in 1..Numel(a.shape) |->
                        FAdd(ElemF(a, x), ElemF(b, bj(x)))]
               ELSE <<>>)

\* ------------------------------------------- scaled_dot_product_attention
\* variant: the scores are taken against Q itself instead of K
AttentionWeightsQQ(Q, K) ==
    IF ~IsTensor(Q) THEN Q
    ELSE IF Len(Q.shape) < 3 THEN Err("IndexError")
    ELSE LET d_keys == Q.shape[3]
         IN  Softmax0(MulRsqrt(Matmul(Q, Transpose12(Q)), d_keys))

AttentionWeights(Q, K) ==
    IF ~IsTensor(Q) THEN Q
    ELSE IF Len(Q.shape) < 3 THEN Err("IndexError")
    ELSE LET d_keys == Q.shape[3]
         IN  Softmax0(MulRsqrt(Matmul(Q, Transpose12(K)), d_keys))

\* variant: the weights are returned without being applied to V
attention_without_V(Q, K, V) == AttentionWeights(Q, K)

scaled_dot_product_attention(Q, K, V) == Matmul(AttentionWeights(Q, K), V)

\* -------------------------------------------------------- random generator
\* The generator is a deterministic function of its state; every draw of a
\* tensor advances the state by one.
Gen(state, i) == ((state + 1) * i + state) % 3

NextRng(state, draws) == (state + draws) % RngPeriod

\* torch.randn(shape) and nn.init.xavier_normal_: any real; here -1, 0, 1
randn(state, shape) ==
    IntTensor(shape, [i \in 1..Numel(shape) |-> Gen(state, i) - 1])

\* nn.init.uniform_: a real in [0, 1); here 0 or 1/2
uniform(state, shape) ==
    Tensor(shape, "frac", 1, Tracked(shape),
           [i \in 1..Numel(shape) |-> FRat(Gen(state, i) % 2, 2)])

\* ------------------------------------------------------ notebook namespace
NoGlobals == [defined |-> FALSE, d_model |-> 0, num_heads |-> 0,
              d_keys |-> 0, d_values |-> 0]

NoCall == [called |-> FALSE, Q |-> None, K |-> None, V |-> None,
           weights |-> None, out |-> None]

\* values of d_model, num_heads the attention cell is run with: the
\* notebook's own <<512, 8>> and small edits of it
DemoConfigs == {<<512, 8>>, <<2, 2>>}

\* tensors a caller passes to scaled_dot_product_attention: rank-3 Q, K, V
\* with a common number of heads, Q and K with a common last dimension, and
\* every combination of the three sequence lengths; and the tensors of the
\* notebook's own run, of shape (8, 512, 64)
Patterns == {"ones", "head0"}

Fill(shape, pat) ==
    IntTensor(shape,
        [i \in 1..Numel(shape) |->
            IF pat = "ones" THEN 1
            ELSE IF i <= shape[2] * shape[3] THEN 1 ELSE 0])

AttnTriples ==
    {<<Fill(<<h, lq, dk>>, pq), Fill(<<h, lk, dk>>, pk),
       Fill(<<h, lv, dv>>, pv)>> :
        h \in 1..MaxHeads, lq \in 1..MaxSeqLen, lk \in 1..MaxSeqLen,
        lv \in 1..MaxSeqLen, dk \in 1..MaxHeadDim, dv \in 1..MaxHeadDim,
        pq \in Patterns, pk \in Patterns, pv \in Patterns}
    \cup {<<Fill(<<8, 512, 64>>, "ones"), Fill(<<8, 512, 64>>, "ones"),
            Fill(<<8, 512, 64>>, "ones")>>}

\* ---------------------------------------------------- MultiHeadedAttention
NoModule ==
    [constructed |-> FALSE, d_model |-> 0, d_keys |-> 0, d_values |-> 0,
     num_heads |-> 0, bias |-> FALSE, dropout |-> 0,
     W_Q |-> None, W_K |-> None, W_V |-> None, W_O |-> None, b_O |-> None]

\* the last call of forward on the module: its argument x, x after the
\* call, the per-head output Z, the merged matrix, the value returned; and,
\* when the call before it on the same module had the same x (repeated),
\* the value that call returned (prev_out)
NoForward == [called |-> FALSE, x |-> None, x_after |-> None, Z |-> None,
              merged |-> None, out |-> None, repeated |-> FALSE,
              prev_out |-> None]

\* MultiHeadedAttention.__init__(self, d_model, num_heads, bias, dropout),
\* run with the namespace g and the generator state.  d_keys and d_values in
\* the shapes of the parameters are the names of the namespace, not the
\* fields of self.  err is the exception raised or "ok"; draws is the
\* number of tensors drawn from the generator before returning or raising.
MultiHeadedAttention_init(g, state, d_model, num_heads, bias, dropout) ==
    IF d_model % num_heads # 0
    THEN [err |-> "AssertionError", draws |-> 0, self |-> NoModule]
    ELSE IF ~g.defined
    THEN [err |-> "NameError", draws |-> 0, self |-> NoModule]
    ELSE
    LET self == [constructed |-> TRUE,
                 d_model |-> d_model,
                 d_keys |-> d_model \div num_heads,
                 d_values |-> d_model \div num_heads,
                 num_heads |-> num_heads,
                 bias |-> bias,
                 dropout |-> dropout,
                 W_Q |-> randn(state, <<num_heads, d_model, g.d_keys>>),
                 W_K |-> randn(NextRng(state, 1),
                               <<num_heads, d_model, g.d_keys>>),
                 W_V |-> randn(NextRng(state, 2),
                               <<num_heads, d_model, g.d_values>>),
                 W_O |-> uniform(NextRng(state, 3),
                                 <<num_heads * g.d_values, d_model>>),
                 b_O |-> IF bias
                         THEN uniform(NextRng(state, 4),
                                      <<num_heads * g.d_values>>)
                         ELSE None]
    IN  IF ~bias
        THEN [err |-> "AttributeError", draws |-> 4, self |-> NoModule]
        ELSE [err |-> "ok", draws |-> 5, self |-> self]

\* variant: the bias is added in place to the input instead of the output
forward_bias_into_x(self, x) ==
    LET Q == Matmul(x, self.W_Q)
        K == Matmul(x, self.W_K)
        V == Matmul(x, self.W_V)
        Z == scaled_dot_product_attention(Q, K, V)
        merged == Reshape(Z, <<x.shape[1], self.d_model>>)
        out == Matmul(merged, self.W_O)
    IN  [ret |-> out, Z |-> Z, merged |-> merged, self |-> self,
         x |-> IF self.bias THEN IAdd(x, self.b_O) ELSE x]

\* variant: self.dropout is applied to the output, the mask drawn from the
\* generator
forward_with_dropout(self, x) ==
    LET Q == Matmul(x, self.W_Q)
        K == Matmul(x, self.W_K)
        V == Matmul(x, self.W_V)
        Z == scaled_dot_product_attention(Q, K, V)
        merged == Reshape(Z, <<x.shape[1], self.d_model>>)
        out == Matmul(merged, self.W_O)
        ret == IF self.bias THEN IAdd(out, self.b_O) ELSE out
        dropped(i) == \/ self.dropout = 100
                      \/ self.dropout = 50 /\ Gen(rng, i) = 0
        masked == IF IsTensor(ret) /\ ret.known /\ self.dropout > 0
                  THEN [ret EXCEPT !.data =
                          [i \in 1..Numel(ret.shape) |->
                              IF dropped(i) THEN FInt(0)
                              ELSE FMul(FInt(2), ret.data[i])]]
                  ELSE ret
    IN  [ret |-> masked, Z |-> Z, merged |-> merged, self |-> self, x |-> x]

\* MultiHeadedAttention.forward(self, x): the value returned (ret), the
\* per-head output Z, the merged matrix, and self and x as the call
\* leaves them
forward(self, x) ==
    LET Q == Matmul(x, self.W_Q)
        K == Matmul(x, self.W_K)
        V == Matmul(x, self.W_V)
        Z == scaled_dot_product_attention(Q, K, V)
        merged == Reshape(Z, <<x.shape[1], self.d_model>>)
        out == Matmul(merged, self.W_O)
        ret == IF self.bias THEN IAdd(out, self.b_O) ELSE out
    IN  [ret |-> ret, Z |-> Z, merged |-> merged, self |-> self, x |-> x]

\* arguments the constructor is called with
CtorArgs == {<<2, 2>>, <<2, 1>>, <<3, 2>>}
DropoutPercents == {0, 50, 100}

\* inputs of forward: rank-2 tensors of shape (L, d_model)
Input(L, d) == IntTensor(<<L, d>>, [i \in 1..(L * d) |-> i - 1])

Inputs(d) == {Input(L, d) : L \in 1..MaxSeqLen}

\* --------------------------------------------------------------- actions
\* the operation run last: its name, for a constructor call whether
\* d_model % num_heads == 0 and the bias argument, and the exception raised
Op(name, divisible, bias, err) ==
    [name |-> name, divisible |-> divisible, bias |-> bias, err |-> err]

Init ==
    /\ ns = NoGlobals
    /\ rng = 0
    /\ att = NoCall
    /\ mha = NoModule
    /\ fwd = NoForward
    /\ op = Op("start", FALSE, FALSE, "ok")

\* the cell "let's try this out with some random values"
RunAttentionCell(cfg) ==
    LET d_model == cfg[1]
        num_heads == cfg[2]
        d_keys == d_model \div num_heads
        d_values == d_model \div num_heads
        Q == randn(rng, <<num_heads, d_model, d_keys>>)
        K == randn(NextRng(rng, 1), <<num_heads, d_model, d_keys>>)
        V == randn(NextRng(rng, 2), <<num_heads, d_model, d_values>>)
    IN  /\ ns' = [defined |-> TRUE, d_model |-> d_model,
                  num_heads |-> num_heads, d_keys |-> d_keys,
                  d_values |-> d_values]
        /\ rng' = NextRng(rng, 3)
        /\ att' = [called |-> TRUE, Q |-> Q, K |-> K, V |-> V,
                   weights |-> AttentionWeights(Q, K),
                   out |-> scaled_dot_product_attention(Q, K, V)]
        /\ op' = Op("attention_cell", FALSE, FALSE, "ok")
        /\ UNCHANGED <<mha, fwd>>

\* the call scaled_dot_product_attention(Q, K, V) on the caller's tensors
AttentionCall ==
    /\ ~att.called
    /\ att' = [att EXCEPT !.called = TRUE,
                          !.weights = AttentionWeights(att.Q, att.K),
                          !.out = scaled_dot_product_attention(att.Q, att.K,
                                                               att.V)]
    /\ op' = Op("attention", FALSE, FALSE, "ok")
    /\ UNCHANGED <<ns, rng, mha, fwd>>

\* multi_headed_attention = MultiHeadedAttention(d_model, num_heads, bias,
\* dropout); the name is bound only if the constructor returns
Construct(d_model, num_heads, bias, dropout) ==
    LET r == MultiHeadedAttention_init(ns, rng, d_model, num_heads, bias,
                                       dropout)
    IN  /\ rng' = NextRng(rng, r.draws)
        /\ IF r.err = "ok"
           THEN mha' = r.self /\ fwd' = NoForward
           ELSE UNCHANGED <<mha, fwd>>
        /\ op' = Op("construct", d_model % num_heads = 0, bias, r.err)
        /\ UNCHANGED <<ns, att>>

\* out = multi_headed_attention(x)
Forward(x) ==
    /\ mha.constructed
    /\ LET r == forward(mha, x)
       IN  /\ mha' = r.self
           /\ fwd' = [called |-> TRUE, x |-> x, x_after |-> r.x, Z |-> r.Z,
                      merged |-> r.merged, out |-> r.ret,
                      repeated |-> fwd.called /\ fwd.x = x,
                      prev_out |-> IF fwd.called /\ fwd.x = x
                                   THEN fwd.out ELSE None]
    /\ op' = Op("forward", FALSE, FALSE, "ok")
    /\ UNCHANGED <<ns, rng, att>>

\* the cell "let's test this out": the default constructor, an input
\* torch.randn((100, d_model)) with the d_model of the namespace, a call
RunModuleCell ==
    LET r == MultiHeadedAttention_init(ns, rng, 512, 8, TRUE, 0)
        x == randn(NextRng(rng, r.draws), <<100, ns.d_model>>)
        f == forward(r.self, x)
    IN  /\ IF r.err = "ok"
           THEN /\ rng' = NextRng(rng, r.draws + 1)
                /\ mha' = f.self
                /\ fwd' = [called |-> TRUE, x |-> x, x_after |-> f.x,
                           Z |-> f.Z, merged |-> f.merged, out |-> f.ret,
                           repeated |-> FALSE, prev_out |-> None]
           ELSE /\ rng' = NextRng(rng, r.draws)
                /\ UNCHANGED <<mha, fwd>>
        /\ op' = Op("module_cell", 512 % 8 = 0, TRUE, r.err)
        /\ UNCHANGED <<ns, att>>

Next ==
    \/ \E cfg \in DemoConfigs : RunAttentionCell(cfg)
    \/ \E a \in CtorArgs, bias \in BOOLEAN, dropout \in DropoutPercents :
          Construct(a[1], a[2], bias, dropout)
    \/ \E x \in Inputs(mha.d_model) : Forward(x)
    \/ RunModuleCell

Spec == Init /\ [][Next]_vars

\* the function on its own: the caller's Q, K, V are drawn first, then the
\* function is applied to them
InitAttention ==
    /\ ns = NoGlobals
    /\ rng = 0
    /\ \E t \in AttnTriples :
          att = [NoCall EXCEPT !.Q = t[1], !.K = t[2], !.V = t[3]]
    /\ mha = NoModule
    /\ fwd = NoForward
    /\ op = Op("start", FALSE, FALSE, "ok")

NextAttention == AttentionCall

SpecAttention == InitAttention /\ [][NextAttention]_vars

\* --------------------------------------------------- claims on the module
\* the last forward call was made with an input of shape (L, d_model)
ForwardCase ==
    /\ mha.constructed
    /\ fwd.called
    /\ Len(fwd.x.shape) = 2
    /\ fwd.x.shape[2] = mha.d_model

\* C1: forward on an input of shape (L, d_model) returns a tensor of shape
\* (L, d_model)
C1_ForwardShape ==
    ForwardCase =>
        /\ IsTensor(fwd.out)
        /\ fwd.out.shape = <<fwd.x.shape[1], mha.d_model>>

\* C2: for both settings of bias the constructor succeeds iff
\* d_model % num_heads == 0, and otherwise fails at the divisibility check
C2_ConstructIffDivisible ==
    (op.name = "construct") =>
        /\ op.divisible <=> op.err = "ok"
        /\ ~op.divisible => op.err = "AssertionError"

\* C3: the merge step concatenates the heads along the feature axis:
\* M[i, h * head_dim + c] = Z[h, i, c]
C3_MergeConcatenatesHeads ==
    (ForwardCase /\ IsTensor(fwd.merged) /\ fwd.merged.known) =>
        LET Z == fwd.Z
            M == fwd.merged
            H == Z.shape[1]
            L == Z.shape[2]
            hd == Z.shape[3]
        IN  \A h \in 0..(H - 1), i \in 0..(L - 1), c \in 0..(hd - 1) :
                FEq(M.data[i * M.shape[2] + h * hd + c + 1],
                    Z.data[h * L * hd + i * hd + c + 1])

\* C6: a module with bias=False can be constructed and run, and its output
\* is the output of the module with the same weights and bias=True minus b_O
C6_NoBiasIsBiasMinusB ==
    /\ (op.name = "construct" /\ ns.defined /\ op.divisible /\ ~op.bias)
          => op.err = "ok"
    /\ (ForwardCase /\ mha.bias /\ IsTensor(fwd.out)) =>
          LET twin == [mha EXCEPT !.bias = FALSE, !.b_O = None]
          IN  TensorEq(IAdd(forward(twin, fwd.x).ret, mha.b_O), fwd.out)

\* C8: a forward call leaves the weight tensors and the fields of the module
\* as they were, and does not modify its input
C8_ForwardLeavesModuleAndInput ==
    [][(op'.name = "forward") =>
          (mha' = mha /\ TensorEq(fwd'.x_after, fwd'.x))]_vars

C8_Witness ==
    /\ op.name = "forward"
    /\ ForwardCase
    /\ mha.bias
    /\ IsTensor(fwd.out) /\ fwd.out.known
    /\ \E i \in 1..Numel(mha.b_O.shape) : ~FEq(mha.b_O.data[i], FInt(0))

Rank3Call ==
    /\ att.called
    /\ Len(att.Q.shape) = 3 /\ Len(att.K.shape) = 3 /\ Len(att.V.shape) = 3
    /\ att.Q.shape[1] = att.K.shape[1]
    /\ att.K.shape[1] = att.V.shape[1]
    /\ att.Q.shape[3] = att.K.shape[3]

\* the elements of head h (0-based) of a tracked rank-3 tensor
HeadSlice(t, h) ==
    LET sz == t.shape[2] * t.shape[3]
    IN  [i \in 1..sz |-> ElemF(t, h * sz + i)]

HeadEq(a, b, h) ==
    /\ IsTensor(a) /\ IsTensor(b)
    /\ a.shape = b.shape
    /\ \A i \in 1..(a.shape[2] * a.shape[3]) :
          FEq(HeadSlice(a, h)[i], HeadSlice(b, h)[i])

IntHeadEq(a, b, h) ==
    LET sz == a.shape[2] * a.shape[3]
    IN  /\ a.shape = b.shape
        /\ \A i \in 1..sz : a.data[h * sz + i] = b.data[h * sz + i]

\* C4: each head is computed independently: if another triple of the same
\* shapes agrees with the call's Q, K, V on head h, the two outputs agree on
\* head h
C4_HeadIndependent ==
    (Rank3Call /\ att.Q.known /\ IsTensor(att.out)) =>
        \A t \in AttnTriples : \A h \in 0..(att.Q.shape[1] - 1) :
            (/\ t[1].known
             /\ t[1].shape = att.Q.shape
             /\ t[2].shape = att.K.shape
             /\ t[3].shape = att.V.shape
             /\ IntHeadEq(t[1], att.Q, h)
             /\ IntHeadEq(t[2], att.K, h)
             /\ IntHeadEq(t[3], att.V, h))
            => HeadEq(att.out,
                      scaled_dot_product_attention(t[1], t[2], t[3]), h)

C7_OutputShapeIsVShape ==
    (Rank3Call /\ att.Q.shape[2] = att.K.shape[2]
               /\ att.K.shape[2] = att.V.shape[2]) =>
        (IsTensor(att.out) /\ att.out.shape = att.V.shape)

C7_Witness ==
    /\ Rank3Call
    /\ att.Q.shape = <<8, 512, 64>> /\ att.K.shape = <<8, 512, 64>>
    /\ att.V.shape = <<8, 512, 64>>
    /\ IsTensor(att.out)
    /\ att.out.shape = <<8, 512, 64>>

\* C9 as stated: whenever the three sequence lengths are not all equal the
\* call fails with the library's shape-mismatch failure
C9_FailsUnlessAllEqual ==
    (Rank3Call /\ ~(att.Q.shape[2] = att.K.shape[2]
                    /\ att.K.shape[2] = att.V.shape[2])) =>
        att.out.err = "RuntimeError"

\* C9 amended: the call fails with the shape-mismatch failure whenever the
\* sequence lengths of K and V differ; when they are equal and only Q's
\* differs it returns a tensor of shape (heads, Lq, d_values)
C9_FailsIffKVLengthsDiffer ==
    Rank3Call =>
        /\ (att.K.shape[2] # att.V.shape[2]) => att.out.err = "RuntimeError"
        /\ (att.K.shape[2] = att.V.shape[2]) =>
              /\ IsTensor(att.out)
              /\ att.out.shape =
                    <<att.Q.shape[1], att.Q.shape[2], att.V.shape[3]>>

C9_Witness ==
    /\ Rank3Call
    /\ att.K.shape[2] # att.V.shape[2]
    /\ att.Q.shape[2] = att.V.shape[2]
    /\ att.out.err = "RuntimeError"

====
